---- MODULE Spec2Model ----
(***************************************************************************)
(* Helix-Track Core: the generated entity classes (Ticket, Project,        *)
(* WorkflowStep) as a state machine.  Each class is a record of private    *)
(* fields behind a getter and a setter per field; a setter is the single   *)
(* assignment `this->field = value`, a getter returns the field.  The      *)
(* store holds one Ticket, one Project and the WorkflowStep rows of the    *)
(* workflow; callers change them through the setters only.  The program's  *)
(* entry point, main(), is a second state machine: it parses the command   *)
(* line, sets the two logging modes, loads the configuration file, picks   *)
(* the log level, registers two routes and runs the server.                *)
(***************************************************************************)
EXTENDS Integers, FiniteSets, Sequences, TLC

(* ------------------------------ bounds -------------------------------- *)

\* Timestamps (int, epoch seconds) handed to setCreated / setModified.
MaxTime == 2

\* Setter calls in one behaviour.
MaxCalls == 3

(* ------------------------------ values -------------------------------- *)

Times == 0..MaxTime

\* What a caller may hand to setCreated: any int, negative ones included.
CreatedInputs == -1..MaxTime

\* The two concurrent callers that change the ticket's status.
Callers == {"c1", "c2"}

\* std::string ids.  "" is the empty string of a default-constructed field.
NoId == ""

\* TicketStatus ids; "X" is a status no WorkflowStep row refers to.
StatusIds == {"A", "B", "C", "X"}

StepIds == {"s1", "s2", "s3"}

\* A WorkflowStep id that names no row.
DanglingStepId == "s9"

WorkflowIds == {"w1", "w2"}

ProjectIds == {"p1", "p2"}

TicketIds == {"t1", "t2"}

\* TicketRelationshipType ids: a hierarchy type and a plain one.
RelationshipTypeIds == {"parent", "blocks"}

HierarchyTypeIds == {"parent"}

\* What an operation of main() may throw; "other" is any exception type that
\* is neither std::runtime_error nor std::logic_error nor derived from them.
ExceptionKinds == {"runtime_error", "logic_error", "other"}

\* --configurationFile: left at its default value or given.
ConfigurationFiles == {"default", "provided"}

errTag == "error"

startingTag == "starting"

paramsTag == "parameters"

(* ------------------------------- state -------------------------------- *)

VARIABLES
    ticket,   \* the Ticket object's fields
    project,  \* the Project object's fields (the project "p1")
    steps,    \* WorkflowStep objects by id
    pc,       \* per caller: "idle", "read" (holds a status it read), "done"
    seen,     \* per caller: the status getTicketStatusId() returned to it
    target,   \* per caller: the status it handed to setTicketStatusId
    outcome,  \* per caller: "none" until its setter call returned, then "ok"
    calls,    \* setter calls made so far
    now,      \* the current time (epoch seconds) of the calling layer
    newTickets, \* Ticket objects constructed during the run (at most one)
    mappings, \* RepositoryCommitTicketMapping objects constructed (at most one)
    relationships, \* TicketRelationship objects created so far
    auditMeta, \* AuditMetaData objects created so far (at most one)
    args,     \* main(): the command line (--logFull, --debug, --configurationFile)
    configuration, \* Utils::configuration (debug, logFull)
    mainPc,   \* main(): the statement it is at
    parsed,   \* main(): program.parse_args returned
    app,      \* drogon::app(): configuration loaded, log level, routes, started
    logged,   \* the (level, tag) of every message main() logged, in order
    exitCode, \* the process's exit status once mainPc = "exited"
    thrown    \* the exception main() met: where it was thrown and its kind

entityVars == <<ticket, project, steps, pc, seen, target, outcome, calls, now,
                newTickets, mappings>>

rowVars == <<relationships, auditMeta>>

mainVars == <<args, configuration, mainPc, parsed, app, logged, exitCode, thrown>>

vars == <<entityVars, rowVars, mainVars>>

\* The linear workflow w1: s1(A) -> s2(B) -> s3(C), bound to project p1; the
\* ticket belongs to p1 and is in status A.
InitSteps ==
    [s \in StepIds |->
        [id |-> s,
         workflowId |-> "w1",
         workflowStepId |-> (CASE s = "s1" -> "s2" [] s = "s2" -> "s3" [] OTHER -> NoId),
         ticketStatusId |-> (CASE s = "s1" -> "A" [] s = "s2" -> "B" [] OTHER -> "C"),
         created |-> 1,
         modified |-> 1,
         deleted |-> FALSE]]

EntitiesInit ==
    /\ ticket = [id |-> "t1", title |-> "t", ticketStatusId |-> "A",
                 projectId |-> "p1", created |-> 1, modified |-> 1,
                 deleted |-> FALSE]
    /\ project = [id |-> "p1", workflowId |-> "w1", created |-> 1,
                  modified |-> 1, deleted |-> FALSE]
    /\ steps = InitSteps
    /\ pc = [c \in Callers |-> "idle"]
    /\ seen = [c \in Callers |-> NoId]
    /\ target = [c \in Callers |-> NoId]
    /\ outcome = [c \in Callers |-> "none"]
    /\ calls = 0
    /\ now = 1
    /\ newTickets = <<>>
    /\ mappings = <<>>
    /\ relationships = <<>>
    /\ auditMeta = <<>>

\* main() before its first statement.  Configuration.h gives the two flags
\* of Utils::configuration their initial values; any value is allowed for.
MainInit ==
    /\ args \in [logFull : BOOLEAN, debug : BOOLEAN,
                  configurationFile : ConfigurationFiles]
    /\ configuration \in [debug : BOOLEAN, logFull : BOOLEAN]
    /\ mainPc = "parse"
    /\ parsed = FALSE
    /\ app = [configLoaded |-> FALSE, logLevel |-> "unset", handlers |-> {},
              started |-> FALSE]
    /\ logged = <<>>
    /\ exitCode = 0
    /\ thrown = [at |-> "none", kind |-> "none"]

\* The entity classes are exercised by a process started without flags.
Init ==
    /\ EntitiesInit
    /\ MainInit
    /\ args = [logFull |-> FALSE, debug |-> FALSE, configurationFile |-> "default"]
    /\ configuration = [debug |-> FALSE, logFull |-> FALSE]

\* main() is exercised with every command line.
InitMain == EntitiesInit /\ MainInit

(* ------------------------- generated accessors ------------------------ *)

\* Ticket.cpp: every setter is `this->field = value;` and nothing else.
Ticket_getId(t) == t.id

Ticket_setId(t, value) == [t EXCEPT !.id = value]

\* A setter that would also stamp the object, as a validating setter would.
Ticket_setTitle_Stamping(t, value) == [t EXCEPT !.title = value, !.modified = 0]

Ticket_setTitle(t, value) == [t EXCEPT !.title = value]

Ticket_getCreated(t) == t.created

Ticket_setCreated(t, value) == [t EXCEPT !.created = value]

Ticket_getModified(t) == t.modified

Ticket_setModified(t, value) == [t EXCEPT !.modified = value]

Ticket_getTicketStatusId(t) == t.ticketStatusId

Ticket_setTicketStatusId(t, value) == [t EXCEPT !.ticketStatusId = value]

Ticket_setProjectId(t, value) == [t EXCEPT !.projectId = value]

Ticket_isDeleted(t) == t.deleted

Ticket_setDeleted(t, value) == [t EXCEPT !.deleted = value]

\* Ticket.h: the class declares no constructor, so `Ticket t;` leaves the
\* std::string fields empty and the int and bool fields indeterminate.
Ticket_construct ==
    {[id |-> NoId, title |-> NoId, ticketStatusId |-> NoId, projectId |-> NoId,
      created |-> c, modified |-> m, deleted |-> d] :
        c \in CreatedInputs, m \in CreatedInputs, d \in BOOLEAN}

\* RepositoryCommitTicketMapping.cpp: a mapping row between a repository
\* commit and a ticket; no constructor either.
RepositoryCommitTicketMapping_construct ==
    {[id |-> NoId, ticketId |-> NoId, deleted |-> d] : d \in BOOLEAN}

RepositoryCommitTicketMapping_setTicketId(m, value) == [m EXCEPT !.ticketId = value]

RepositoryCommitTicketMapping_setDeleted(m, value) == [m EXCEPT !.deleted = value]

\* Project.cpp
Project_getId(p) == p.id

Project_setId(p, value) == [p EXCEPT !.id = value]

Project_setWorkflowId(p, value) == [p EXCEPT !.workflowId = value]

Project_getCreated(p) == p.created

Project_setCreated(p, value) == [p EXCEPT !.created = value]

Project_setModified(p, value) == [p EXCEPT !.modified = value]

Project_setDeleted(p, value) == [p EXCEPT !.deleted = value]

\* WorkflowStep.cpp
WorkflowStep_setWorkflowStepId(w, value) == [w EXCEPT !.workflowStepId = value]

WorkflowStep_setTicketStatusId(w, value) == [w EXCEPT !.ticketStatusId = value]

WorkflowStep_setDeleted(w, value) == [w EXCEPT !.deleted = value]

\* TicketRelationship.h declares the class (no constructor; an accessor pair
\* per field); a setter updates its field.  `TicketRelationship r;` leaves
\* the std::string fields empty and the bool field indeterminate.
TicketRelationship_construct ==
    {[id |-> NoId, ticketRelationshipTypeId |-> NoId, ticketId |-> NoId,
      childTicketId |-> NoId, deleted |-> d] : d \in BOOLEAN}

TicketRelationship_setTicketRelationshipTypeId(r, value) ==
    [r EXCEPT !.ticketRelationshipTypeId = value]

TicketRelationship_setTicketId(r, value) == [r EXCEPT !.ticketId = value]

TicketRelationship_setChildTicketId(r, value) == [r EXCEPT !.childTicketId = value]

TicketRelationship_setDeleted(r, value) == [r EXCEPT !.deleted = value]

\* AuditMetaData.h declares the class: no deleted field, no constructor.
AuditMetaData_construct == [id |-> NoId, auditId |-> NoId, property |-> NoId, value |-> NoId]

AuditMetaData_setProperty(a, value) == [a EXCEPT !.property = value]

AuditMetaData_setValue(a, value) == [a EXCEPT !.value = value]

\* Utils.cpp: the two logging modes kept in Utils::configuration.
Utils_isDebug(cfg) == cfg.debug

Utils_setDebug(cfg, value) == [cfg EXCEPT !.debug = value]

Utils_logFull(cfg) == cfg.logFull

Utils_setLogFull(cfg, value) == [cfg EXCEPT !.logFull = value]

\* main.cpp:96: the argument of setDebug, `program["--debug"] == true &&
\* logFull()`.
DebugMode_FlagAlone(debugFlag, logFullMode) == debugFlag

DebugMode(debugFlag, logFullMode) == debugFlag /\ logFullMode

\* main.cpp:126-135: the log level handed to drogon::app().setLogLevel.
LogLevelFor_FullLogFirst(debugMode, logFullMode) ==
    IF logFullMode THEN "kDebug"
    ELSE IF debugMode THEN "kTrace"
    ELSE "kWarn"

LogLevelFor(debugMode, logFullMode) ==
    IF debugMode THEN "kTrace"
    ELSE IF logFullMode THEN "kDebug"
    ELSE "kWarn"

\* main.cpp:87: the catch clause around parse_args.
ParseCatches(kind) == kind = "runtime_error"

\* main.cpp:193-202: the catch clauses around the rest of main().
StartupCatches_RuntimeOnly(kind) == kind = "runtime_error"

StartupCatches(kind) == kind \in {"logic_error", "runtime_error"}

(* ------------------------------ actions -------------------------------- *)

Budget == calls < MaxCalls

Spend == calls' = calls + 1

CallersUnchanged == UNCHANGED <<pc, seen, target, outcome, now>>

NewObjectsUnchanged == UNCHANGED <<newTickets, mappings>>

OthersUnchanged == UNCHANGED <<rowVars, mainVars>>

\* A plain setter call on the ticket.
TicketSetter ==
    /\ Budget
    /\ \/ \E v \in {"t1", "t2"} : ticket' = Ticket_setId(ticket, v)
       \/ \E v \in {"t", "u"} : ticket' = Ticket_setTitle(ticket, v)
       \/ \E v \in CreatedInputs : ticket' = Ticket_setCreated(ticket, v)
       \/ \E v \in Times : ticket' = Ticket_setModified(ticket, v)
       \/ \E v \in ProjectIds : ticket' = Ticket_setProjectId(ticket, v)
       \/ \E v \in BOOLEAN : ticket' = Ticket_setDeleted(ticket, v)
    /\ Spend
    /\ UNCHANGED <<project, steps>>
    /\ CallersUnchanged
    /\ NewObjectsUnchanged
    /\ OthersUnchanged

\* A caller reads the ticket's status: getTicketStatusId().
CallerRead(c) ==
    /\ pc[c] = "idle"
    /\ seen' = [seen EXCEPT ![c] = Ticket_getTicketStatusId(ticket)]
    /\ pc' = [pc EXCEPT ![c] = "read"]
    /\ UNCHANGED <<ticket, project, steps, target, outcome, calls, now>>
    /\ NewObjectsUnchanged
    /\ OthersUnchanged

\* The caller then moves the ticket: setTicketStatusId(value).  The setter
\* returns void and has no failing path, so the call always succeeds.
CallerCommit(c) ==
    /\ pc[c] = "read"
    /\ Budget
    /\ \E v \in StatusIds :
          /\ ticket' = Ticket_setTicketStatusId(ticket, v)
          /\ target' = [target EXCEPT ![c] = v]
    /\ outcome' = [outcome EXCEPT ![c] = "ok"]
    /\ pc' = [pc EXCEPT ![c] = "done"]
    /\ Spend
    /\ UNCHANGED <<project, steps, seen, now>>
    /\ NewObjectsUnchanged
    /\ OthersUnchanged

\* A plain setter call on the project.
ProjectSetter ==
    /\ Budget
    /\ \/ \E v \in {"p1", NoId} : project' = Project_setId(project, v)
       \/ \E v \in WorkflowIds : project' = Project_setWorkflowId(project, v)
       \/ \E v \in CreatedInputs : project' = Project_setCreated(project, v)
       \/ \E v \in Times : project' = Project_setModified(project, v)
       \/ \E v \in BOOLEAN : project' = Project_setDeleted(project, v)
    /\ Spend
    /\ UNCHANGED <<ticket, steps>>
    /\ CallersUnchanged
    /\ NewObjectsUnchanged
    /\ OthersUnchanged

\* A plain setter call on one WorkflowStep row.
WorkflowStepSetter(s) ==
    /\ Budget
    /\ \/ \E v \in StepIds \cup {NoId, DanglingStepId} :
             steps' = [steps EXCEPT ![s] = WorkflowStep_setWorkflowStepId(@, v)]
       \/ \E v \in StatusIds :
             steps' = [steps EXCEPT ![s] = WorkflowStep_setTicketStatusId(@, v)]
       \/ \E v \in BOOLEAN :
             steps' = [steps EXCEPT ![s] = WorkflowStep_setDeleted(@, v)]
    /\ Spend
    /\ UNCHANGED <<ticket, project>>
    /\ CallersUnchanged
    /\ NewObjectsUnchanged
    /\ OthersUnchanged

\* Time passes between calls.
Tick ==
    /\ now < MaxTime
    /\ now' = now + 1
    /\ UNCHANGED <<ticket, project, steps, pc, seen, target, outcome, calls>>
    /\ NewObjectsUnchanged
    /\ OthersUnchanged

\* `Ticket t;`: a new ticket object.
TicketConstruct ==
    /\ Budget
    /\ newTickets = <<>>
    /\ \E t \in Ticket_construct : newTickets' = <<t>>
    /\ Spend
    /\ UNCHANGED <<ticket, project, steps, mappings>>
    /\ CallersUnchanged
    /\ OthersUnchanged

\* The new ticket is put into a project: setProjectId(value).
NewTicketSetter ==
    /\ Budget
    /\ newTickets # <<>>
    /\ \E v \in ProjectIds :
          newTickets' = <<Ticket_setProjectId(newTickets[1], v)>>
    /\ Spend
    /\ UNCHANGED <<ticket, project, steps, mappings>>
    /\ CallersUnchanged
    /\ OthersUnchanged

\* `RepositoryCommitTicketMapping m;`: a new mapping row.
MappingConstruct ==
    /\ Budget
    /\ mappings = <<>>
    /\ \E m \in RepositoryCommitTicketMapping_construct : mappings' = <<m>>
    /\ Spend
    /\ UNCHANGED <<ticket, project, steps, newTickets>>
    /\ CallersUnchanged
    /\ OthersUnchanged

\* A plain setter call on the mapping row.
MappingSetter ==
    /\ Budget
    /\ mappings # <<>>
    /\ \/ \E v \in {"t1", "t9"} :
             mappings' = <<RepositoryCommitTicketMapping_setTicketId(mappings[1], v)>>
       \/ \E v \in BOOLEAN :
             mappings' = <<RepositoryCommitTicketMapping_setDeleted(mappings[1], v)>>
    /\ Spend
    /\ UNCHANGED <<ticket, project, steps, newTickets>>
    /\ CallersUnchanged
    /\ OthersUnchanged

(* ------------------- relationship and metadata rows -------------------- *)

\* A relationship between two tickets is created: the object is constructed
\* and its type, parent and child are set.
TicketRelationshipCreate ==
    /\ Budget
    /\ \E r \in TicketRelationship_construct, ty \in RelationshipTypeIds,
          parent \in TicketIds, child \in TicketIds :
          relationships' =
              Append(relationships,
                     TicketRelationship_setChildTicketId(
                         TicketRelationship_setTicketId(
                             TicketRelationship_setTicketRelationshipTypeId(r, ty),
                             parent),
                         child))
    /\ Spend
    /\ UNCHANGED <<ticket, project, steps, newTickets, mappings, auditMeta>>
    /\ CallersUnchanged
    /\ UNCHANGED mainVars

\* A relationship row is soft-deleted or restored: setDeleted(value).
TicketRelationshipSetter ==
    /\ Budget
    /\ \E i \in 1..Len(relationships), v \in BOOLEAN :
          relationships' =
              [relationships EXCEPT ![i] = TicketRelationship_setDeleted(@, v)]
    /\ Spend
    /\ UNCHANGED <<ticket, project, steps, newTickets, mappings, auditMeta>>
    /\ CallersUnchanged
    /\ UNCHANGED mainVars

\* An audit metadata row is created: constructed, then its property and
\* value are set.
AuditMetaDataCreate ==
    /\ Budget
    /\ auditMeta = <<>>
    /\ \E v \in {"v", "w"} :
          auditMeta' =
              <<AuditMetaData_setValue(
                    AuditMetaData_setProperty(AuditMetaData_construct, "k"), v)>>
    /\ Spend
    /\ UNCHANGED <<ticket, project, steps, newTickets, mappings, relationships>>
    /\ CallersUnchanged
    /\ UNCHANGED mainVars

\* A later setter call on the audit metadata row.
AuditMetaDataSetter ==
    /\ Budget
    /\ auditMeta # <<>>
    /\ \/ \E v \in {"k", "l"} :
             auditMeta' = <<AuditMetaData_setProperty(auditMeta[1], v)>>
       \/ \E v \in {"v", "w"} :
             auditMeta' = <<AuditMetaData_setValue(auditMeta[1], v)>>
    /\ Spend
    /\ UNCHANGED <<ticket, project, steps, newTickets, mappings, relationships>>
    /\ CallersUnchanged
    /\ UNCHANGED mainVars

(* -------------------------------- main() ------------------------------- *)

\* An exception of the given kind leaves the try block at the given place:
\* a matching catch clause logs it with e(errTag, ...) and calls
\* std::exit(1); with no matching clause the process is terminated.
Raise(at, kind, caught, log) ==
    /\ thrown' = [at |-> at, kind |-> kind]
    /\ IF caught
       THEN /\ logged' = Append(log, <<"e", errTag>>)
            /\ mainPc' = "exited"
            /\ exitCode' = 1
       ELSE /\ logged' = log
            /\ mainPc' = "terminated"
            /\ exitCode' = exitCode

\* main.cpp:83-91: program.parse_args(argc, argv).
ParseArgs ==
    /\ mainPc = "parse"
    /\ \/ /\ parsed' = TRUE
          /\ mainPc' = "setLogFull"
          /\ UNCHANGED <<logged, exitCode, thrown>>
       \/ /\ \E k \in ExceptionKinds : Raise("parse", k, ParseCatches(k), logged)
          /\ UNCHANGED parsed
    /\ UNCHANGED <<args, configuration, app>>
    /\ UNCHANGED <<entityVars, rowVars>>

\* main.cpp:95: setLogFull(program["--logFull"] == true).
SetLogFull ==
    /\ mainPc = "setLogFull"
    /\ configuration' = Utils_setLogFull(configuration, args.logFull)
    /\ mainPc' = "setDebug"
    /\ UNCHANGED <<args, parsed, app, logged, exitCode, thrown>>
    /\ UNCHANGED <<entityVars, rowVars>>

\* main.cpp:96: setDebug(program["--debug"] == true && logFull()).
SetDebug ==
    /\ mainPc = "setDebug"
    /\ configuration' =
           Utils_setDebug(configuration, DebugMode(args.debug, Utils_logFull(configuration)))
    /\ mainPc' = "load"
    /\ UNCHANGED <<args, parsed, app, logged, exitCode, thrown>>
    /\ UNCHANGED <<entityVars, rowVars>>

\* main.cpp:100-118: what is logged before the configuration file is loaded.
ParameterLog ==
    (IF Utils_logFull(configuration) THEN <<<<"v", paramsTag>>>> ELSE <<>>)
    \o (IF Utils_isDebug(configuration)
        THEN <<<<"w", paramsTag>>, <<"v", "generated code">>>> ELSE <<>>)
    \o <<<<"d", startingTag>>>>

\* main.cpp:98-124: the messages, then drogon::app().loadConfigFile(...).
LoadConfigFile ==
    /\ mainPc = "load"
    /\ \/ /\ app' = [app EXCEPT !.configLoaded = TRUE]
          /\ logged' = logged \o ParameterLog
          /\ mainPc' = "level"
          /\ UNCHANGED <<exitCode, thrown>>
       \/ /\ \E k \in ExceptionKinds :
                Raise("load", k, StartupCatches(k), logged \o ParameterLog)
          /\ UNCHANGED app
    /\ UNCHANGED <<args, configuration, parsed>>
    /\ UNCHANGED <<entityVars, rowVars>>

\* main.cpp:126-147: the log level is chosen and handed to the framework;
\* the number of cpu cores is logged when it is known and full-log is on.
SetLogLevel ==
    /\ mainPc = "level"
    /\ \/ /\ app' = [app EXCEPT !.logLevel =
                        LogLevelFor(Utils_isDebug(configuration),
                                    Utils_logFull(configuration))]
          /\ \E coresKnown \in BOOLEAN :
                logged' = IF Utils_logFull(configuration) /\ coresKnown
                          THEN Append(logged, <<"d", startingTag>>)
                          ELSE logged
          /\ mainPc' = "version"
          /\ UNCHANGED <<exitCode, thrown>>
       \/ /\ \E k \in ExceptionKinds : Raise("level", k, StartupCatches(k), logged)
          /\ UNCHANGED app
    /\ UNCHANGED <<args, configuration, parsed>>
    /\ UNCHANGED <<entityVars, rowVars>>

\* main.cpp:175-180: registerHandler("/version", ...).
RegisterVersion ==
    /\ mainPc = "version"
    /\ \/ /\ app' = [app EXCEPT !.handlers = @ \cup {"/version"}]
          /\ mainPc' = "version.sh"
          /\ UNCHANGED <<logged, exitCode, thrown>>
       \/ /\ \E k \in ExceptionKinds : Raise("version", k, StartupCatches(k), logged)
          /\ UNCHANGED app
    /\ UNCHANGED <<args, configuration, parsed>>
    /\ UNCHANGED <<entityVars, rowVars>>

\* main.cpp:182-189: registerHandler("/version.sh", ...), then "Ok" is logged.
RegisterVersionSh ==
    /\ mainPc = "version.sh"
    /\ \/ /\ app' = [app EXCEPT !.handlers = @ \cup {"/version.sh"}]
          /\ logged' = Append(logged, <<"d", startingTag>>)
          /\ mainPc' = "run"
          /\ UNCHANGED <<exitCode, thrown>>
       \/ /\ \E k \in ExceptionKinds : Raise("version.sh", k, StartupCatches(k), logged)
          /\ UNCHANGED app
    /\ UNCHANGED <<args, configuration, parsed>>
    /\ UNCHANGED <<entityVars, rowVars>>

\* main.cpp:191: drogon::app().run() starts the server.
Run ==
    /\ mainPc = "run"
    /\ app' = [app EXCEPT !.started = TRUE]
    /\ mainPc' = "serving"
    /\ UNCHANGED <<args, configuration, parsed, logged, exitCode, thrown>>
    /\ UNCHANGED <<entityVars, rowVars>>

\* main.cpp:191-203: run() returns when the server is stopped and main
\* returns 0, or run() throws while the server is up.
Serve ==
    /\ mainPc = "serving"
    /\ \/ /\ mainPc' = "exited"
          /\ exitCode' = 0
          /\ UNCHANGED <<logged, thrown>>
       \/ \E k \in ExceptionKinds : Raise("run", k, StartupCatches(k), logged)
    /\ UNCHANGED <<args, configuration, parsed, app>>
    /\ UNCHANGED <<entityVars, rowVars>>

Next ==
    \/ Tick
    \/ TicketConstruct
    \/ NewTicketSetter
    \/ MappingConstruct
    \/ MappingSetter
    \/ TicketSetter
    \/ \E c \in Callers : CallerRead(c)
    \/ \E c \in Callers : CallerCommit(c)
    \/ ProjectSetter
    \/ \E s \in StepIds : WorkflowStepSetter(s)

Spec == Init /\ [][Next]_vars

\* The accessors of the one Ticket and of the WorkflowStep rows alone.
NextAccessors ==
    \/ TicketSetter
    \/ \E c \in Callers : CallerRead(c)
    \/ \E c \in Callers : CallerCommit(c)
    \/ \E s \in StepIds : WorkflowStepSetter(s)

SpecAccessors == Init /\ [][NextAccessors]_vars

\* The relationship and metadata rows alone.
NextRows ==
    \/ TicketRelationshipCreate
    \/ TicketRelationshipSetter
    \/ AuditMetaDataCreate
    \/ AuditMetaDataSetter

SpecRows == Init /\ [][NextRows]_vars

\* main() from its first statement to the end of the process.
NextMain ==
    \/ ParseArgs
    \/ SetLogFull
    \/ SetDebug
    \/ LoadConfigFile
    \/ SetLogLevel
    \/ RegisterVersion
    \/ RegisterVersionSh
    \/ Run
    \/ Serve

SpecMain == InitMain /\ [][NextMain]_vars

TypeOK ==
    /\ ticket.ticketStatusId \in StatusIds
    /\ ticket.projectId \in ProjectIds
    /\ ticket.created \in CreatedInputs /\ ticket.modified \in Times
    /\ now \in Times
    /\ Len(newTickets) <= 1 /\ Len(mappings) <= 1
    /\ ticket.deleted \in BOOLEAN
    /\ project.workflowId \in WorkflowIds
    /\ \A s \in StepIds : steps[s].workflowStepId \in StepIds \cup {NoId, DanglingStepId}
    /\ pc \in [Callers -> {"idle", "read", "done"}]
    /\ outcome \in [Callers -> {"none", "ok"}]
    /\ calls \in 0..MaxCalls
    /\ Len(auditMeta) <= 1
    /\ \A i \in 1..Len(relationships) :
          relationships[i].ticketRelationshipTypeId \in RelationshipTypeIds
    /\ configuration \in [debug : BOOLEAN, logFull : BOOLEAN]
    /\ mainPc \in {"parse", "setLogFull", "setDebug", "load", "level", "version",
                   "version.sh", "run", "serving", "exited", "terminated"}
    /\ app.logLevel \in {"unset", "kTrace", "kDebug", "kWarn"}
    /\ app.handlers \subseteq {"/version", "/version.sh"}
    /\ exitCode \in {0, 1}
    /\ thrown.kind \in ExceptionKinds \cup {"none"}

(* ----------------------- the workflow step graph ----------------------- *)

\* The workflow bound to the ticket's project: Ticket::projectId names the
\* Project, Project::workflowId the workflow.
BoundWorkflow == IF ticket.projectId = project.id THEN project.workflowId ELSE NoId

\* The rows of workflow w that are not tombstones.
LiveSteps(w) == {s \in StepIds : steps[s].workflowId = w /\ ~steps[s].deleted}

\* Steps of w no other step of w chains to through workflowStepId.
EntrySteps(w) ==
    {s \in LiveSteps(w) : \A r \in LiveSteps(w) : steps[r].workflowStepId # s}

RECURSIVE ReachFrom(_, _, _)
ReachFrom(w, S, n) ==
    IF n = 0 THEN S
    ELSE ReachFrom(w, S \cup ({steps[s].workflowStepId : s \in S} \cap LiveSteps(w)), n - 1)

ReachableSteps(w) == ReachFrom(w, EntrySteps(w), Cardinality(StepIds))

ReachableStatuses(w) == {steps[s].ticketStatusId : s \in ReachableSteps(w)}

\* The statuses of the steps the ticket's current step chains to directly.
SuccessorStatuses ==
    LET w == BoundWorkflow
        cur == {s \in LiveSteps(w) : steps[s].ticketStatusId = ticket.ticketStatusId}
    IN  {steps[steps[s].workflowStepId].ticketStatusId :
            s \in {r \in cur : steps[r].workflowStepId \in LiveSteps(w)}}

\* The statuses of the entry steps of workflow w.
EntryStatuses(w) == {steps[s].ticketStatusId : s \in EntrySteps(w)}

\* Some step of w is reachable from itself along workflowStepId.
HasCycle(w) ==
    \E s \in LiveSteps(w) :
        s \in ReachFrom(w, {steps[s].workflowStepId} \cap LiveSteps(w), Cardinality(StepIds))

\* A caller's status change returned successfully in this step.
Transitioned(c) == outcome[c] = "none" /\ outcome'[c] = "ok"

\* Some live step of w names, as its next step, a WorkflowStep that does
\* not exist.
HasDanglingStep(w) ==
    \E s \in LiveSteps(w) : steps[s].workflowStepId \notin StepIds \cup {NoId}

\* The parent -> child edges of the non-deleted hierarchy rows.
HierarchyEdges ==
    {<<relationships[i].ticketId, relationships[i].childTicketId>> :
        i \in {j \in 1..Len(relationships) :
                 /\ ~relationships[j].deleted
                 /\ relationships[j].ticketRelationshipTypeId \in HierarchyTypeIds}}

RECURSIVE DescendantsFrom(_, _)
DescendantsFrom(S, n) ==
    IF n = 0 THEN S
    ELSE DescendantsFrom(S \cup {e[2] : e \in {d \in HierarchyEdges : d[1] \in S}}, n - 1)

\* The tickets below t in the hierarchy.
Descendants(t) ==
    DescendantsFrom({e[2] : e \in {d \in HierarchyEdges : d[1] = t}},
                    Cardinality(TicketIds))

\* The fields of the Ticket and of a WorkflowStep row that differ between
\* the two states of a step.
TicketFieldsChanged == {f \in DOMAIN ticket : ticket'[f] # ticket[f]}

StepFieldsChanged(s) == {f \in DOMAIN steps[s] : steps'[s][f] # steps[s][f]}

\* main() has carried out lines 95-96 (it got past them, or ended later).
FlagsHandled ==
    \/ mainPc \in {"load", "level", "version", "version.sh", "run", "serving"}
    \/ mainPc \in {"exited", "terminated"} /\ thrown.at # "parse"

\* main() has handed the log level to the framework (line 140).
LogLevelSet ==
    \/ mainPc \in {"version", "version.sh", "run", "serving"}
    \/ mainPc \in {"exited", "terminated"} /\ thrown.at \notin {"parse", "load", "level"}

\* The last message logged is an error under the tag "error".
ErrorLogged == logged # <<>> /\ logged[Len(logged)] = <<"e", "error">>

(* ------------------------------- claims -------------------------------- *)

\* C1: a status change succeeds only when the target is the status of the
\* direct successor step of the ticket's current step in the workflow bound
\* to the ticket's project; any other target is refused.
C1_OnlyDirectSuccessor ==
    [][\A c \in Callers :
          (outcome[c] = "none" /\ outcome'[c] = "ok") => target'[c] \in SuccessorStatuses]_vars

\* C2: when two callers both read the ticket in status A and both try to
\* move it to B, exactly one of them succeeds (the other gets a conflict).
C2_ExactlyOneSucceeds ==
    \A c1, c2 \in Callers :
        (/\ c1 # c2
         /\ pc[c1] = "done" /\ pc[c2] = "done"
         /\ seen[c1] = "A" /\ seen[c2] = "A"
         /\ target[c1] = "B" /\ target[c2] = "B"
         /\ steps = InitSteps /\ project.workflowId = "w1" /\ ticket.projectId = "p1")
        => ((outcome[c1] = "ok") # (outcome[c2] = "ok"))

\* C3: in every reachable state the ticket's ticketStatusId is one of the
\* statuses reachable in the step graph of the workflow bound to the
\* ticket's project.
C3_StatusInWorkflow == ticket.ticketStatusId \in ReachableStatuses(BoundWorkflow)

\* C4: modified >= created for every entity in every reachable state.
C4_ModifiedNotBeforeCreated ==
    /\ ticket.modified >= ticket.created
    /\ project.modified >= project.created
    /\ \A s \in StepIds : steps[s].modified >= steps[s].created

\* C5: once an entity's deleted flag is true, no setter call (setDeleted
\* included) makes isDeleted() return false again.
C5_DeletedNeverReversed ==
    [][/\ Ticket_isDeleted(ticket) => Ticket_isDeleted(ticket')
       /\ project.deleted => project'.deleted
       /\ \A s \in StepIds : steps[s].deleted => steps'[s].deleted]_vars

\* C12: a workflow whose step graph contains a cycle is refused when it is
\* built, so no status change is ever carried out on such a workflow.
C12_CycleRefusedBeforeTransition ==
    [][\A c \in Callers : Transitioned(c) => ~HasCycle(BoundWorkflow)]_vars

\* C13: a ticket created in a project starts in the status of the entry
\* step of the project's workflow.
C13_NewTicketInEntryStatus ==
    (/\ newTickets # <<>>
     /\ project.id # NoId
     /\ newTickets[1].projectId = project.id)
    => Ticket_getTicketStatusId(newTickets[1]) \in EntryStatuses(project.workflowId)

\* C14: a successful status change sets ticketStatusId to the target and
\* sets the ticket's modified timestamp to the current time.
C14_TransitionSetsStatusAndModified ==
    [][\A c \in Callers :
          Transitioned(c) =>
              /\ Ticket_getTicketStatusId(ticket') = target'[c]
              /\ Ticket_getModified(ticket') = now]_vars

\* C15: a setter refuses an empty id and a negative created and leaves the
\* field as it was, so the fields never hold such a value.
C15_InvalidValueNotStored ==
    /\ Project_getId(project) # NoId
    /\ Project_getCreated(project) >= 0
    /\ Ticket_getCreated(ticket) >= 0

\* C16: every setter call that changes a field other than id and created
\* also sets the entity's modified to the current time.
C16_MutationTouchesModified ==
    [][/\ (\/ ticket'.title # ticket.title
           \/ ticket'.ticketStatusId # ticket.ticketStatusId
           \/ ticket'.projectId # ticket.projectId
           \/ ticket'.deleted # ticket.deleted) => Ticket_getModified(ticket') = now
       /\ (\/ project'.workflowId # project.workflowId
           \/ project'.deleted # project.deleted) => project'.modified = now]_vars

\* C17: id and created never change once set: no setter call changes what
\* getId() or getCreated() returns.
C17_IdAndCreatedImmutable ==
    [][/\ Ticket_getId(ticket') = Ticket_getId(ticket)
       /\ Ticket_getCreated(ticket') = Ticket_getCreated(ticket)
       /\ Project_getId(project') = Project_getId(project)
       /\ Project_getCreated(project') = Project_getCreated(project)]_vars

\* C19: a mapping row gets a foreign id only when that id names an existing
\* parent that is not soft-deleted at that time.
C19_MappingParentLive ==
    [][(/\ mappings # <<>>
        /\ mappings' # <<>>
        /\ mappings'[1].ticketId # mappings[1].ticketId)
       => (mappings'[1].ticketId = Ticket_getId(ticket) /\ ~Ticket_isDeleted(ticket))]_vars

\* C20: a workflow with more than one entry step is refused when it is
\* built, so no status change is ever carried out on such a workflow.
C20_TwoEntriesRefusedBeforeTransition ==
    [][\A c \in Callers :
          Transitioned(c) => Cardinality(EntrySteps(BoundWorkflow)) <= 1]_vars

\* C21: a workflow in which a step refers to a workflowStepId that does not
\* exist is refused when it is loaded, so no status change is ever carried
\* out on such a workflow.
C21_DanglingRefusedBeforeTransition ==
    [][\A c \in Callers : Transitioned(c) => ~HasDanglingStep(BoundWorkflow)]_vars

\* C24: the non-deleted TicketRelationship rows of a hierarchy type never
\* contain a cycle: no ticket is below itself, a self-link included.
C24_HierarchyAcyclic == \A t \in TicketIds : t \notin Descendants(t)

\* C26: once an AuditMetaData row is created, no later operation changes
\* its contents.
C26_MetaDataNeverChanged ==
    [][auditMeta # <<>> => auditMeta' = auditMeta]_vars

\* C27: a setter call changes exactly the field it is named after and no
\* other field of any object (a status change leaves the ticket with the
\* status handed in and touches nothing else); a getter call returns the
\* field and changes no field.
C27_SetterChangesOnlyItsField ==
    [][/\ Cardinality(TicketFieldsChanged) <= 1
       /\ \A s \in StepIds : Cardinality(StepFieldsChanged(s)) <= 1
       /\ Cardinality({s \in StepIds : steps'[s] # steps[s]}) <= 1
       /\ ticket' # ticket => steps' = steps
       /\ \A c \in Callers :
             Transitioned(c) =>
                 /\ Ticket_getTicketStatusId(ticket') = target'[c]
                 /\ TicketFieldsChanged \subseteq {"ticketStatusId"}
       /\ \A c \in Callers :
             (pc[c] = "idle" /\ pc'[c] = "read") =>
                 /\ ticket' = ticket /\ steps' = steps /\ project' = project
                 /\ seen'[c] = ticket.ticketStatusId]_vars

\* C27 witness: one setter call, setTitle("u"), was made: the title is "u"
\* and every other field of the ticket, and every step row, is as before.
C27_TitleSetOthersKept ==
    /\ calls = 1
    /\ ticket = [id |-> "t1", title |-> "u", ticketStatusId |-> "A",
                 projectId |-> "p1", created |-> 1, modified |-> 1,
                 deleted |-> FALSE]
    /\ steps = InitSteps

\* C28: the server is started only after the arguments were parsed, the
\* configuration file was loaded and both routes were registered; a
\* runtime_error from parsing, or a logic_error or runtime_error from a
\* later statement, is logged under "error" and ends the process with exit
\* status 1, and when it came from a statement before run() the server was
\* never started.
C28_RunOnlyAfterStartup ==
    /\ app.started =>
           /\ parsed
           /\ app.configLoaded
           /\ app.handlers = {"/version", "/version.sh"}
    /\ mainPc = "serving" => app.started
    /\ (\/ thrown.at = "parse" /\ thrown.kind = "runtime_error"
        \/ /\ thrown.at \in {"load", "level", "version", "version.sh", "run"}
           /\ thrown.kind \in {"logic_error", "runtime_error"})
       => /\ mainPc = "exited"
          /\ exitCode = 1
          /\ ErrorLogged
          /\ thrown.at # "run" => ~app.started

\* C28 witness: registering /version.sh threw a logic_error after parsing,
\* loading and registering /version went well.
C28_LogicErrorWhileRegistering ==
    /\ thrown = [at |-> "version.sh", kind |-> "logic_error"]
    /\ parsed /\ app.configLoaded /\ app.handlers = {"/version"}
    /\ mainPc = "exited"

\* C29: once the flags are handled, isDebug() is (--debug and --logFull) and
\* logFull() is --logFull, so isDebug() implies logFull().
C29_DebugNeedsLogFull ==
    FlagsHandled =>
        /\ Utils_isDebug(configuration) = (args.debug /\ args.logFull)
        /\ Utils_logFull(configuration) = args.logFull
        /\ Utils_isDebug(configuration) => Utils_logFull(configuration)

\* C29 witness: --debug was given without --logFull and the flags are
\* handled: debug mode is off.
C29_DebugAloneIsOff ==
    /\ mainPc = "load"
    /\ args.debug /\ ~args.logFull
    /\ ~Utils_isDebug(configuration)

\* C30: the log level handed to the framework is kTrace when debug mode is
\* on, otherwise kDebug when full-log mode is on, otherwise kWarn; --debug
\* without --logFull gives kWarn.
C30_LogLevelFromModes ==
    /\ LogLevelSet =>
           /\ app.logLevel = (CASE args.debug /\ args.logFull -> "kTrace"
                                [] ~args.debug /\ args.logFull -> "kDebug"
                                [] OTHER -> "kWarn")
           /\ (Utils_isDebug(configuration) <=> app.logLevel = "kTrace")
           /\ (~Utils_isDebug(configuration) /\ Utils_logFull(configuration)
                   <=> app.logLevel = "kDebug")
    /\ ~LogLevelSet => app.logLevel = "unset"

\* C30 witness: --debug was given without --logFull and the level handed to
\* the framework is kWarn.
C30_DebugAloneGivesWarn ==
    /\ mainPc = "version"
    /\ args.debug /\ ~args.logFull
    /\ app.logLevel = "kWarn"

====
